---- MODULE Spec2Model ----
(***************************************************************************)
(* A model of the prefix tree of treeline (src/src/trie.rs): Trie, Node    *)
(* and the TrieRead iterator.  A Rust String is modelled as a sequence of  *)
(* chars, each with the number of bytes of its UTF-8 encoding, so that the *)
(* byte slice `&word[1..]` is modelled by what it does.                    *)
(***************************************************************************)
EXTENDS Integers, Sequences, FiniteSets, TLC

\* Longest string handed to an operation.
MaxLen == 2

\* The chars of the model: "a" and "b" are one byte long in UTF-8, "U" stands
\* for a char whose encoding is two bytes long (such as U+00E9).
Chars == {"a", "b", "U"}

len_utf8(c) == IF c = "U" THEN 2 ELSE 1

Str == UNION {[1..n -> Chars] : n \in 0..MaxLen}

\* Option<T>: None is <<>>, Some(x) is <<x>>.
None == <<>>
Some(x) == <<x>>

\* str::len(): the length in bytes.
RECURSIVE ByteLen(_)
ByteLen(s) == IF s = <<>> THEN 0 ELSE len_utf8(Head(s)) + ByteLen(Tail(s))

\* str::is_char_boundary(1) of a non-empty string.
IsCharBoundary1(word) == ByteLen(word) = 1 \/ len_utf8(Head(word)) = 1

\* `&word[1..]`: the string after its first byte; the index panics when
\* byte 1 is inside the first char.  Defined where IsCharBoundary1 holds.
Slice1(word) == Tail(word)

---------------------------------------------------------------------------
\* Node::new
NodeNew(key, value) == [key |-> key, value |-> value, children |-> <<>>]

\* HashMap::len of a node's children
ChildrenLen(node) == Cardinality(DOMAIN node.children)

\* HashMap insert / replace of the entry `c` of self.children
WithChild(self, c, n) ==
    [self EXCEPT !.children =
        [k \in (DOMAIN self.children) \cup {c} |->
            IF k = c THEN n ELSE self.children[k]]]

\* HashMap::remove of the entry `c` of self.children
RemoveChild(self, c) ==
    [self EXCEPT !.children =
        [k \in (DOMAIN self.children) \ {c} |-> self.children[k]]]

\* Node::insert with the recursion left out: only the first char is entered.
NodeInsertFirstOnly(self, word) ==
    IF word = <<>> THEN [node |-> self, ok |-> TRUE]
    ELSE LET root  == Head(word)
             child == IF root \in DOMAIN self.children
                      THEN self.children[root]
                      ELSE NodeNew(root, Append(self.value, root))
         IN  [node |-> WithChild(self, root, child), ok |-> IsCharBoundary1(word)]

\* Node::insert with HashMap::insert in place of entry().or_insert_with():
\* an existing child is replaced by a new node.
RECURSIVE NodeInsertReplace(_, _)
NodeInsertReplace(self, word) ==
    IF word = <<>> THEN [node |-> self, ok |-> TRUE]
    ELSE LET root  == Head(word)
             child == NodeNew(root, Append(self.value, root))
         IN  IF ~IsCharBoundary1(word)
             THEN [node |-> WithChild(self, root, child), ok |-> FALSE]
             ELSE LET r == NodeInsertReplace(child, Slice1(word))
                  IN  [node |-> WithChild(self, root, r.node), ok |-> r.ok]

\* Node::insert that gives a new node its key as value, not the path to it.
RECURSIVE NodeInsertKeyValue(_, _)
NodeInsertKeyValue(self, word) ==
    IF word = <<>> THEN [node |-> self, ok |-> TRUE]
    ELSE LET root  == Head(word)
             child == IF root \in DOMAIN self.children
                      THEN self.children[root]
                      ELSE NodeNew(root, <<root>>)
         IN  IF ~IsCharBoundary1(word)
             THEN [node |-> WithChild(self, root, child), ok |-> FALSE]
             ELSE LET r == NodeInsertKeyValue(child, Slice1(word))
                  IN  [node |-> WithChild(self, root, r.node), ok |-> r.ok]

\* Node::insert.  The result is the node after the call and whether the call
\* returned (ok) or panicked in `&word[1..]`; the child is entered into the
\* map before the slice is taken, so it stays there when the slice panics.
RECURSIVE NodeInsert(_, _)
NodeInsert(self, word) ==
    IF word = <<>> THEN [node |-> self, ok |-> TRUE]
    ELSE LET root   == Head(word)
             prefix == self.value
             child  == IF root \in DOMAIN self.children
                       THEN self.children[root]
                       ELSE NodeNew(root, Append(prefix, root))
         IN  IF ~IsCharBoundary1(word)
             THEN [node |-> WithChild(self, root, child), ok |-> FALSE]
             ELSE LET r == NodeInsert(child, Slice1(word))
                  IN  [node |-> WithChild(self, root, r.node), ok |-> r.ok]

\* Node::delete without its second check: a child left childless by the
\* recursive call is not removed.
RECURSIVE NodeDeleteNoPrune(_, _)
NodeDeleteNoPrune(self, word) ==
    IF word = <<>> THEN [node |-> self, ok |-> TRUE]
    ELSE LET root == Head(word)
         IN  IF root \notin DOMAIN self.children
             THEN [node |-> self, ok |-> TRUE]
             ELSE LET child == self.children[root]
                  IN  IF ChildrenLen(child) = 0
                      THEN [node |-> RemoveChild(self, root), ok |-> TRUE]
                      ELSE IF ~IsCharBoundary1(word)
                      THEN [node |-> self, ok |-> FALSE]
                      ELSE LET r == NodeDeleteNoPrune(child, Slice1(word))
                           IN  IF ~r.ok
                               THEN [node |-> self, ok |-> FALSE]
                               ELSE [node |-> WithChild(self, root, r.node), ok |-> TRUE]

\* Node::delete that removes the node of the last char of the word whether or
\* not it has children.
RECURSIVE NodeDeleteLast(_, _)
NodeDeleteLast(self, word) ==
    IF word = <<>> THEN [node |-> self, ok |-> TRUE]
    ELSE LET root == Head(word)
         IN  IF root \notin DOMAIN self.children
             THEN [node |-> self, ok |-> TRUE]
             ELSE LET child == self.children[root]
                  IN  IF ChildrenLen(child) = 0 \/ Len(word) = 1
                      THEN [node |-> RemoveChild(self, root), ok |-> TRUE]
                      ELSE IF ~IsCharBoundary1(word)
                      THEN [node |-> self, ok |-> FALSE]
                      ELSE LET r == NodeDeleteLast(child, Slice1(word))
                           IN  IF ~r.ok
                               THEN [node |-> self, ok |-> FALSE]
                               ELSE IF ChildrenLen(r.node) = 0
                               THEN [node |-> RemoveChild(self, root), ok |-> TRUE]
                               ELSE [node |-> WithChild(self, root, r.node), ok |-> TRUE]

\* Node::delete.  A panic in `&word[1..]` happens before anything is removed.
RECURSIVE NodeDelete(_, _)
NodeDelete(self, word) ==
    IF word = <<>> THEN [node |-> self, ok |-> TRUE]
    ELSE LET root == Head(word)
         IN  IF root \notin DOMAIN self.children
             THEN [node |-> self, ok |-> TRUE]
             ELSE LET child == self.children[root]
                  IN  IF ChildrenLen(child) = 0
                      THEN [node |-> RemoveChild(self, root), ok |-> TRUE]
                      ELSE IF ~IsCharBoundary1(word)
                      THEN [node |-> self, ok |-> FALSE]
                      ELSE LET r == NodeDelete(child, Slice1(word))
                           IN  IF ~r.ok
                               THEN [node |-> self, ok |-> FALSE]
                               ELSE IF ChildrenLen(r.node) = 0
                               THEN [node |-> RemoveChild(self, root), ok |-> TRUE]
                               ELSE [node |-> WithChild(self, root, r.node), ok |-> TRUE]

\* Node::find.  res is the Option<&Node>.
RECURSIVE NodeFind(_, _)
NodeFind(self, word) ==
    IF word = <<>> THEN [res |-> Some(self), ok |-> TRUE]
    ELSE LET root == Head(word)
         IN  IF root \in DOMAIN self.children
             THEN IF ~IsCharBoundary1(word)
                  THEN [res |-> None, ok |-> FALSE]
                  ELSE NodeFind(self.children[root], Slice1(word))
             ELSE [res |-> None, ok |-> TRUE]

\* Node::find_mut: the same walk as Node::find, over mutable references.
RECURSIVE NodeFindMut(_, _)
NodeFindMut(self, word) ==
    IF word = <<>> THEN [res |-> Some(self), ok |-> TRUE]
    ELSE LET root == Head(word)
         IN  IF root \in DOMAIN self.children
             THEN IF ~IsCharBoundary1(word)
                  THEN [res |-> None, ok |-> FALSE]
                  ELSE NodeFindMut(self.children[root], Slice1(word))
             ELSE [res |-> None, ok |-> TRUE]

\* The node `self` with the node reached by `path` replaced by `n`: what a
\* write through the `&mut Node` returned by find_mut(path) does to the tree.
RECURSIVE Replace(_, _, _)
Replace(self, path, n) ==
    IF path = <<>> THEN n
    ELSE WithChild(self, Head(path), Replace(self.children[Head(path)], Tail(path), n))

---------------------------------------------------------------------------
\* Trie::new
TrieNew == [root |-> NodeNew(" ", <<>>)]

\* Trie::insert
TrieInsert(t, word) ==
    LET r == NodeInsert(t.root, word) IN [trie |-> [root |-> r.node], ok |-> r.ok]

\* Trie::delete
TrieDelete(t, word) ==
    LET r == NodeDelete(t.root, word) IN [trie |-> [root |-> r.node], ok |-> r.ok]

\* Trie::delete_after_prefix as a delete of prefix + word from the root.
TrieDeleteAfterPrefixFromRoot(t, prefix, word) ==
    LET r == NodeDelete(t.root, prefix \o word) IN [trie |-> [root |-> r.node], ok |-> r.ok]

\* Trie::delete_after_prefix that deletes from the root when the prefix is
\* not found.
TrieDeleteAfterPrefixFallback(t, prefix, word) ==
    LET f    == NodeFindMut(t.root, prefix)
        at   == IF f.res = None THEN <<>> ELSE prefix
        head == IF f.res = None THEN t.root ELSE f.res[1]
    IN  IF ~f.ok THEN [trie |-> t, ok |-> FALSE]
        ELSE LET r == NodeDelete(head, word)
             IN  IF ~r.ok THEN [trie |-> t, ok |-> FALSE]
                 ELSE [trie |-> [root |-> Replace(t.root, at, r.node)], ok |-> TRUE]

\* Trie::delete_after_prefix
TrieDeleteAfterPrefix(t, prefix, word) ==
    LET f == NodeFindMut(t.root, prefix)
    IN  IF ~f.ok THEN [trie |-> t, ok |-> FALSE]
        ELSE IF f.res = None THEN [trie |-> t, ok |-> TRUE]
        ELSE LET r == NodeDelete(f.res[1], word)
             IN  IF ~r.ok THEN [trie |-> t, ok |-> FALSE]
                 ELSE [trie |-> [root |-> Replace(t.root, prefix, r.node)], ok |-> TRUE]

\* Trie::find
TrieFind(t, word) == NodeFind(t.root, word)

\* The orders in which HashMap::values() may visit the children of a node:
\* the order is unspecified, a call takes one of them.
Orders == {o \in [1..Cardinality(Chars) -> Chars] : \A i, j \in DOMAIN o : i # j => o[i] # o[j]}

\* head.children.values(), visited in the order `ord`
Values(node, ord) ==
    LET keys == SelectSeq(ord, LAMBDA c : c \in DOMAIN node.children)
    IN  [i \in 1..Len(keys) |-> node.children[keys[i]]]

\* Trie::words: the TrieRead it returns is its stack
TrieWords(t, ord) == Values(t.root, ord)

\* Trie::words_with_prefix that starts the iterator at the node of the prefix
\* itself instead of at its children.
TrieWordsWithPrefixSelf(t, prefix, ord) ==
    LET f == TrieFind(t, prefix)
    IN  IF ~f.ok THEN [stack |-> <<>>, ok |-> FALSE]
        ELSE IF f.res # None THEN [stack |-> <<f.res[1]>>, ok |-> TRUE]
        ELSE [stack |-> <<>>, ok |-> TRUE]

\* Trie::words_with_prefix
TrieWordsWithPrefix(t, prefix, ord) ==
    LET f == TrieFind(t, prefix)
    IN  IF ~f.ok THEN [stack |-> <<>>, ok |-> FALSE]
        ELSE IF f.res # None THEN [stack |-> Values(f.res[1], ord), ok |-> TRUE]
        ELSE [stack |-> <<>>, ok |-> TRUE]

\* TrieRead::next without the test for children: the value of every node
\* popped is returned.
TrieReadNextAll(stack, ord) ==
    IF stack = <<>> THEN [item |-> None, stack |-> <<>>]
    ELSE LET head   == stack[Len(stack)]
             pushed == SubSeq(stack, 1, Len(stack) - 1) \o Values(head, ord)
         IN  [item |-> Some(head.value), stack |-> pushed]

\* TrieRead::next: one call, the loop until a value is returned or the stack
\* is empty.  item is the Option<&String>, stack the stack left behind.
RECURSIVE TrieReadNext(_, _)
TrieReadNext(stack, ord) ==
    IF stack = <<>> THEN [item |-> None, stack |-> <<>>]
    ELSE LET head   == stack[Len(stack)]
             pushed == SubSeq(stack, 1, Len(stack) - 1) \o Values(head, ord)
         IN  IF ChildrenLen(head) = 0
             THEN [item |-> Some(head.value), stack |-> pushed]
             ELSE TrieReadNext(pushed, ord)

\* `for word in iter`: next() is called until it returns None; the values
\* returned, in order (tests::len counts them, get_input prints them).
RECURSIVE Collect(_, _)
Collect(stack, ord) ==
    LET n == TrieReadNext(stack, ord)
    IN  IF n.item = None THEN <<>> ELSE <<n.item[1]>> \o Collect(n.stack, ord)

---------------------------------------------------------------------------
VARIABLES
    trie,        \* the Trie
    panicked,    \* a call has panicked: the thread that owns the trie is gone
    last,        \* the last call: its name and arguments
    out,         \* what the last call returned (queries), None otherwise
    prev,        \* the trie before the last call
    prev2,       \* the trie before insert(E), when the last two calls were
                 \* insert(E) then delete(E); None otherwise
    tracking,    \* the caller keeps a record of what it has stored (the
                 \* three variables below); without it they stay empty
    entries,     \* the entries inserted and not deleted since
    prevEntries, \* entries before the last call
    dirty,       \* delete or delete_after_prefix has been called
    \* the edit loop of src/src/bin/main.rs, whose history is `trie`
    line_buffer, \* get_input: the line being typed
    status,      \* "idle": no edit loop; "editing": in get_input; "returned":
                 \* run has returned Ok; "exited": process::exit(0)
    event,       \* the last event read() returned
    returned,    \* Some(line) when the last event made get_input return line
    prevBuffer,  \* line_buffer before the last event
    stdout,      \* the terminal: its current line and the column of the cursor
    \* a TrieRead over `trie`
    reading,     \* an iterator is alive (it borrows the trie)
    stack,       \* TrieRead::stack
    popped,      \* the values of the nodes popped so far, in order
    yielded,     \* the values next() has returned so far, in order
    \* a record of the arguments of the calls made so far
    inserted,    \* the words passed to insert
    cut          \* the prefixes passed to delete_after_prefix

trieVars == <<trie, panicked, last, out, prev, prev2, tracking, entries, prevEntries, dirty>>

editVars == <<line_buffer, status, event, returned, prevBuffer, stdout>>

readVars == <<reading, stack, popped, yielded>>

callVars == <<inserted, cut>>

vars == <<trieVars, editVars, readVars, callVars>>

Call(kind, a, b) == [kind |-> kind, a |-> a, b |-> b]

InitWith(t) ==
    /\ tracking = t
    /\ trie = TrieNew
    /\ panicked = FALSE
    /\ last = Call("new", <<>>, <<>>)
    /\ out = None
    /\ prev = TrieNew
    /\ prev2 = None
    /\ entries = {}
    /\ prevEntries = {}
    /\ dirty = FALSE

\* No edit loop runs
NoEditor ==
    /\ line_buffer = <<>>
    /\ status = "idle"
    /\ event = [kind |-> "none", c |-> ""]
    /\ returned = None
    /\ prevBuffer = <<>>
    /\ stdout = [line |-> <<>>, column |-> 0]

\* No iterator is alive
NoReader ==
    /\ reading = "none"
    /\ stack = <<>>
    /\ popped = <<>>
    /\ yielded = <<>>

\* No call has been made
NoCalls ==
    /\ inserted = {}
    /\ cut = {}

Init == InitWith(FALSE) /\ NoEditor /\ NoReader /\ NoCalls

InitStored == InitWith(TRUE) /\ NoEditor /\ NoReader /\ NoCalls

\* trie.insert(word)
Insert(word) ==
    /\ ~panicked
    /\ LET r == TrieInsert(trie, word)
       IN  /\ trie' = r.trie
           /\ panicked' = ~r.ok
           /\ entries' = IF tracking /\ r.ok /\ word # <<>> THEN entries \cup {word} ELSE entries
    /\ last' = Call("insert", word, <<>>)
    /\ out' = None
    /\ prev' = trie
    /\ prev2' = None
    /\ prevEntries' = entries
    /\ UNCHANGED <<dirty, tracking>>

\* trie.delete(word)
Delete(word) ==
    /\ ~panicked
    /\ LET r == TrieDelete(trie, word)
       IN  /\ trie' = r.trie
           /\ panicked' = ~r.ok
           /\ entries' = IF tracking /\ r.ok THEN entries \ {word} ELSE entries
    /\ last' = Call("delete", word, <<>>)
    /\ out' = None
    /\ prev' = trie
    /\ prev2' = IF last = Call("insert", word, <<>>) THEN Some(prev) ELSE None
    /\ prevEntries' = entries
    /\ dirty' = tracking
    /\ UNCHANGED tracking

\* trie.delete_after_prefix(prefix, word)
DeleteAfterPrefix(prefix, word) ==
    /\ ~panicked
    /\ Len(prefix) + Len(word) <= MaxLen
    /\ LET r == TrieDeleteAfterPrefix(trie, prefix, word)
       IN  /\ trie' = r.trie
           /\ panicked' = ~r.ok
           /\ entries' = IF tracking /\ r.ok /\ TrieFind(trie, prefix).res # None
                         THEN entries \ {prefix \o word} ELSE entries
    /\ last' = Call("delete_after_prefix", prefix, word)
    /\ out' = None
    /\ prev' = trie
    /\ prev2' = None
    /\ prevEntries' = entries
    /\ dirty' = tracking
    /\ UNCHANGED tracking

\* A call that reads the trie and returns `res`
Query(call, res, ok) ==
    /\ ~panicked
    /\ panicked' = ~ok
    /\ last' = call
    /\ out' = res
    /\ prev' = trie
    /\ prev2' = None
    /\ prevEntries' = entries
    /\ UNCHANGED <<trie, entries, dirty, tracking>>

\* trie.find(word)
Find(word) ==
    LET f == TrieFind(trie, word) IN Query(Call("find", word, <<>>), f.res, f.ok)

\* for word in trie.words()
Words(ord) ==
    Query(Call("words", <<>>, <<>>), Collect(TrieWords(trie, ord), ord), TRUE)

\* for word in trie.words_with_prefix(prefix)
WordsWithPrefix(prefix, ord) ==
    LET w == TrieWordsWithPrefix(trie, prefix, ord)
    IN  Query(Call("words_with_prefix", prefix, <<>>), Collect(w.stack, ord), w.ok)

\* The caller is a program that uses the trie alone
TrieOnly == UNCHANGED <<editVars, readVars, callVars>>

Next ==
    \/ \E word \in Str : Insert(word) /\ TrieOnly
    \/ \E word \in Str : Delete(word) /\ TrieOnly
    \/ \E prefix, word \in Str : DeleteAfterPrefix(prefix, word) /\ TrieOnly
    \/ \E word \in Str : Find(word) /\ TrieOnly
    \/ \E ord \in Orders : Words(ord) /\ TrieOnly
    \/ \E prefix \in Str, ord \in Orders : WordsWithPrefix(prefix, ord) /\ TrieOnly

Spec == Init /\ [][Next]_vars

\* The same program, with the record of the stored entries kept.
SpecStored == InitStored /\ [][Next]_vars

---------------------------------------------------------------------------
\* The edit loop of src/src/bin/main.rs: run and get_input.  The terminal is
\* taken to work: read() returns an event and the writes succeed.

\* Longest line typed, and most distinct lines held by the history.
MaxLine == 2
MaxHistory == 2

\* The chars the keyboard sends: "Q" is the uppercase of "q", "U" is a char
\* of two bytes.
Keys == {"q", "Q", " ", "U"}

\* The orders of HashMap::values() over nodes keyed by Keys
KeyOrders == {o \in [1..Cardinality(Keys) -> Keys] : \A i, j \in DOMAIN o : i # j => o[i] # o[j]}

\* str::to_lowercase
to_lowercase(s) == [i \in DOMAIN s |-> IF s[i] = "Q" THEN "q" ELSE s[i]]

\* run: the test for an exit command
IsExitCommand(input) ==
    LET lowered_input == to_lowercase(input)
    IN  \/ lowered_input = <<"q">>
        \/ lowered_input = <<"q", "u", "i", "t">>
        \/ lowered_input = <<"e", "x", "i", "t">>

\* The index of the last space of line[1..i], 0 when there is none
RECURSIVE LastSpace(_, _)
LastSpace(line, i) ==
    IF i = 0 THEN 0 ELSE IF line[i] = " " THEN i ELSE LastSpace(line, i - 1)

\* rsplitn(2, ' ') that leaves the space at the end of the part before it
rsplitn2KeepSpace(line) ==
    LET k == LastSpace(line, Len(line))
    IN  IF k = 0 THEN <<line>>
        ELSE <<SubSeq(line, k + 1, Len(line)), SubSeq(line, 1, k)>>

\* line.rsplitn(2, ' ').collect(): the part after the last space, then the
\* part before it; the line alone when it holds no space
rsplitn2(line) ==
    LET k == LastSpace(line, Len(line))
    IN  IF k = 0 THEN <<line>>
        ELSE <<SubSeq(line, k + 1, Len(line)), SubSeq(line, 1, k - 1)>>

\* get_input, Char(c): line_buffer.push(c)
PushChar(line, c) == Append(line, c)

\* get_input, Backspace: line_buffer.pop()
PopChar(line) == IF line = <<>> THEN line ELSE SubSeq(line, 1, Len(line) - 1)

\* get_input, Ctrl+Backspace: the new line_buffer
DeleteWord(line) ==
    LET line_parts == rsplitn2(line)
    IN  IF Len(line_parts) = 2 THEN line_parts[2] ELSE <<>>

Ev(kind, c) == [kind |-> kind, c |-> c]

\* The terminal that stdout writes to is its current line, a sequence of
\* cells of one char, and the column of the cursor, counted from 0.  A cell
\* right of the line's end is blank.  Every char typed takes one cell.  The
\* line is taken to be narrower than the terminal, and a newline to start an
\* empty line with the cursor at column 0.

\* The cell at column i (from 0) of a line
Cell(line, i) == IF i < Len(line) THEN line[i + 1] ELSE " "

\* One char is written at the cursor, which moves one column right
PutChar(t, c) ==
    [line   |-> [i \in 1..(IF t.column < Len(t.line) THEN Len(t.line) ELSE t.column + 1) |->
                    IF i = t.column + 1 THEN c ELSE Cell(t.line, i - 1)],
     column |-> t.column + 1]

\* print!("{}", text), Print(text)
RECURSIVE TermPrint(_, _)
TermPrint(t, text) ==
    IF text = <<>> THEN t ELSE TermPrint(PutChar(t, Head(text)), Tail(text))

\* println!()
NewLine(t) == [line |-> <<>>, column |-> 0]

\* cursor::MoveLeft(n): the cursor stops at the first column
MoveLeft(t, n) == [t EXCEPT !.column = IF n > t.column THEN 0 ELSE t.column - n]

\* cursor::MoveToColumn(0)
MoveToColumn0(t) == [t EXCEPT !.column = 0]

\* terminal::Clear(ClearType::UntilNewLine)
ClearUntilNewLine(t) ==
    [t EXCEPT !.line = IF t.column < Len(t.line) THEN SubSeq(t.line, 1, t.column) ELSE t.line]

\* terminal::Clear(ClearType::CurrentLine)
ClearCurrentLine(t) == [t EXCEPT !.line = <<>>]

\* print_prompt: Print("> ".yellow())
print_prompt(t) == TermPrint(t, <<">", " ">>)

\* get_input, Ctrl+Backspace: what is written for the line_buffer `line`
DeleteWordEcho(t, line) ==
    LET line_parts == rsplitn2(line)
    IN  IF Len(line_parts) = 2
        THEN LET chars_to_remove == ByteLen(line_parts[1]) + 1
             IN  ClearUntilNewLine(MoveLeft(t, chars_to_remove))
        ELSE print_prompt(ClearCurrentLine(MoveToColumn0(t)))

\* get_input, Backspace: what is written
PopCharEcho(t) == ClearUntilNewLine(MoveLeft(t, 1))

\* get_input, Tab: a newline, every word on a line of its own after two
\* blanks, then the prompt and the line_buffer
RECURSIVE PrintWords(_, _)
PrintWords(t, words) ==
    IF words = <<>> THEN t
    ELSE PrintWords(NewLine(TermPrint(t, <<" ", " ">> \o Head(words))), Tail(words))

CompletionEcho(t, words, line) ==
    TermPrint(print_prompt(PrintWords(NewLine(t), words)), line)

\* An event handled without a call on the history
NoCall ==
    /\ last' = Call("none", <<>>, <<>>)
    /\ out' = None
    /\ prev' = trie
    /\ prev2' = None
    /\ prevEntries' = entries
    /\ UNCHANGED <<trie, panicked, entries, dirty, tracking>>

\* read() returns the event ev to the loop of get_input
Received(ev) ==
    /\ status = "editing"
    /\ ~panicked
    /\ event' = ev
    /\ prevBuffer' = line_buffer
    /\ UNCHANGED <<readVars, callVars>>

\* The event is handled inside the loop of get_input, which reads on
StayInLoop(line) ==
    /\ line_buffer' = line
    /\ returned' = None
    /\ UNCHANGED status

\* get_input returns `input` to run: the body of run's loop, then get_input
\* is called again and starts from an empty line_buffer
Return(input) ==
    /\ returned' = Some(input)
    /\ IF IsExitCommand(input)
       THEN /\ status' = "returned"
            /\ NoCall
            /\ stdout' = NewLine(stdout)
            /\ UNCHANGED line_buffer
       ELSE /\ input \in entries \/ input = <<>> \/ Cardinality(entries) < MaxHistory
            /\ Insert(input)
            /\ stdout' = IF panicked' THEN NewLine(stdout) ELSE print_prompt(NewLine(stdout))
            /\ line_buffer' = <<>>
            /\ UNCHANGED status

\* Ctrl+C: process::exit(0)
KeyCtrlC ==
    /\ Received(Ev("CtrlC", ""))
    /\ status' = "exited"
    /\ returned' = None
    /\ NoCall
    /\ UNCHANGED <<line_buffer, stdout>>

\* Enter: break
KeyEnter == Received(Ev("Enter", "")) /\ Return(line_buffer)

\* Ctrl+Backspace
KeyCtrlBackspace ==
    /\ Received(Ev("CtrlBackspace", ""))
    /\ StayInLoop(DeleteWord(line_buffer))
    /\ stdout' = DeleteWordEcho(stdout, line_buffer)
    /\ NoCall

\* Backspace
KeyBackspace ==
    /\ Received(Ev("Backspace", ""))
    /\ StayInLoop(PopChar(line_buffer))
    /\ stdout' = PopCharEcho(stdout)
    /\ NoCall

\* Tab that completes: the first word listed becomes the line_buffer
KeyTabCompletes(ord) ==
    /\ Received(Ev("Tab", ""))
    /\ WordsWithPrefix(line_buffer, ord)
    /\ StayInLoop(IF out' = <<>> THEN line_buffer ELSE out'[1])
    /\ stdout' = CompletionEcho(stdout, out', line_buffer)

\* Tab: the words of history.words_with_prefix(&line_buffer) are printed
KeyTab(ord) ==
    /\ Received(Ev("Tab", ""))
    /\ WordsWithPrefix(line_buffer, ord)
    /\ StayInLoop(line_buffer)
    /\ stdout' = CompletionEcho(stdout, out', line_buffer)

\* Char(c)
KeyChar(c) ==
    /\ Len(line_buffer) < MaxLine
    /\ Received(Ev("Char", c))
    /\ StayInLoop(PushChar(line_buffer, c))
    /\ stdout' = PutChar(stdout, c)
    /\ NoCall

\* Any other key: `_ => {}`
KeyOther ==
    /\ Received(Ev("Other", ""))
    /\ StayInLoop(line_buffer)
    /\ UNCHANGED stdout
    /\ NoCall

\* An event that is not a key event (Event::Resize, Event::Mouse): the
\* pattern of `while let Event::Key(event) = read()?` does not match and the
\* loop ends
NotKey == Received(Ev("NotKey", "")) /\ Return(line_buffer)

\* run: Trie::new(), then the first get_input
InitEditor ==
    /\ InitWith(TRUE)
    /\ line_buffer = <<>>
    /\ status = "editing"
    /\ event = Ev("none", "")
    /\ returned = None
    /\ prevBuffer = <<>>
    /\ stdout = print_prompt([line |-> <<>>, column |-> 0])
    /\ NoReader
    /\ NoCalls

NextEditor ==
    \/ KeyCtrlC
    \/ KeyEnter
    \/ KeyCtrlBackspace
    \/ KeyBackspace
    \/ \E ord \in KeyOrders : KeyTab(ord)
    \/ \E c \in Keys : KeyChar(c)
    \/ KeyOther
    \/ NotKey

SpecEditor == InitEditor /\ [][NextEditor]_vars

\* One input cycle in which chars are typed and deleted, and nothing else
NextLineEdit ==
    \/ \E c \in Keys : KeyChar(c)
    \/ KeyBackspace
    \/ KeyCtrlBackspace

SpecLineEdit == InitEditor /\ [][NextLineEdit]_vars

---------------------------------------------------------------------------
\* The calls made on a trie, recorded: `inserted` holds every word passed to
\* insert so far and `cut` every prefix passed to delete_after_prefix so far.
\* The record is taken when the call is made.  A call that would make the
\* record hold more than MaxRecorded strings is not made.

MaxRecorded == 3

Recorded(ins, pre) ==
    /\ Cardinality((inserted \cup ins)) + Cardinality((cut \cup pre)) <= MaxRecorded
    /\ inserted' = inserted \cup ins
    /\ cut' = cut \cup pre
    /\ UNCHANGED <<last, out, prev, prev2, tracking, entries, prevEntries, dirty>>
    /\ UNCHANGED <<editVars, readVars>>

\* trie.insert(word)
RecordedInsert(word) ==
    /\ ~panicked
    /\ LET r == TrieInsert(trie, word)
       IN  trie' = r.trie /\ panicked' = ~r.ok
    /\ Recorded({word}, {})

\* trie.delete(word)
RecordedDelete(word) ==
    /\ ~panicked
    /\ LET r == TrieDelete(trie, word)
       IN  trie' = r.trie /\ panicked' = ~r.ok
    /\ Recorded({}, {})

\* trie.delete_after_prefix(prefix, word)
RecordedDeleteAfterPrefix(prefix, word) ==
    /\ ~panicked
    /\ Len(prefix) + Len(word) <= MaxLen
    /\ LET r == TrieDeleteAfterPrefix(trie, prefix, word)
       IN  trie' = r.trie /\ panicked' = ~r.ok
    /\ Recorded({}, {prefix})

NextRecorded ==
    \/ \E word \in Str : RecordedInsert(word)
    \/ \E word \in Str : RecordedDelete(word)
    \/ \E prefix, word \in Str : RecordedDeleteAfterPrefix(prefix, word)

SpecRecorded == Init /\ [][NextRecorded]_vars

---------------------------------------------------------------------------
\* A TrieRead, step by step.  While the iterator is alive it borrows the trie,
\* so no insert or delete comes between its steps.  `reading` is "none" when
\* no iterator is alive, "iterating" from its creation on and "finished" once
\* next() has returned None; `stack` is its stack, `popped` the nodes popped
\* so far, `yielded` the values next() has returned so far and `out` what the
\* last step returned.  The user of the iterator is a `for` loop, which calls
\* next() until it returns None.

\* TrieRead::next with last() in the place of pop(): the node looked at stays
\* on the stack.
TrieReadStepPeek(s, ord) ==
    LET head == s[Len(s)]
    IN  [head  |-> head,
         stack |-> s \o Values(head, ord),
         item  |-> IF ChildrenLen(head) = 0 THEN Some(head.value) ELSE None]

\* TrieRead::next, one turn of its loop on a stack that is not empty: head is
\* the node popped, stack the stack after the children of head are pushed,
\* item the value returned, None when the loop goes on.
TrieReadStep(s, ord) ==
    LET head == s[Len(s)]
    IN  [head  |-> head,
         stack |-> SubSeq(s, 1, Len(s) - 1) \o Values(head, ord),
         item  |-> IF ChildrenLen(head) = 0 THEN Some(head.value) ELSE None]

\* The TrieRead with the stack `s` is created by `call`
Open(call, s, ok) ==
    /\ reading = "none"
    /\ Query(call, None, ok)
    /\ IF ok
       THEN reading' = "iterating" /\ stack' = s
       ELSE UNCHANGED <<reading, stack>>
    /\ popped' = <<>>
    /\ yielded' = <<>>
    /\ UNCHANGED <<editVars, callVars>>

\* let iter = trie.words()
OpenWords(ord) == Open(Call("words", <<>>, <<>>), TrieWords(trie, ord), TRUE)

\* let iter = trie.words_with_prefix(prefix)
OpenWordsWithPrefix(prefix, ord) ==
    LET w == TrieWordsWithPrefix(trie, prefix, ord)
    IN  Open(Call("words_with_prefix", prefix, <<>>), w.stack, w.ok)

\* One turn of the loop of next(): a node is popped and its children are pushed
Pop(ord) ==
    /\ reading = "iterating"
    /\ stack # <<>>
    /\ LET step == TrieReadStep(stack, ord)
       IN  /\ stack' = step.stack
           /\ popped' = Append(popped, step.head)
           /\ out' = step.item
           /\ yielded' = IF step.item = None THEN yielded ELSE Append(yielded, step.item[1])
    /\ UNCHANGED <<reading, trie, panicked, last, prev, prev2, tracking, entries, prevEntries, dirty>>
    /\ UNCHANGED <<editVars, callVars>>

\* next() on an empty stack: the loop is left and None is returned
Exhausted ==
    /\ reading \in {"iterating", "finished"}
    /\ stack = <<>>
    /\ reading' = "finished"
    /\ out' = None
    /\ UNCHANGED <<stack, popped, yielded>>
    /\ UNCHANGED <<trie, panicked, last, prev, prev2, tracking, entries, prevEntries, dirty>>
    /\ UNCHANGED <<editVars, callVars>>

\* The `for` loop is over and the iterator is dropped
Drop ==
    /\ reading = "finished"
    /\ reading' = "none"
    /\ stack' = <<>>
    /\ popped' = <<>>
    /\ yielded' = <<>>
    /\ UNCHANGED trieVars
    /\ UNCHANGED <<editVars, callVars>>

\* The trie is free: no iterator borrows it
Free == reading = "none" /\ TrieOnly

NextRead ==
    \/ \E word \in Str : Insert(word) /\ Free
    \/ \E word \in Str : Delete(word) /\ Free
    \/ \E prefix, word \in Str : DeleteAfterPrefix(prefix, word) /\ Free
    \/ \E ord \in Orders : OpenWords(ord)
    \/ \E prefix \in Str, ord \in Orders : OpenWordsWithPrefix(prefix, ord)
    \/ \E ord \in Orders : Pop(ord)
    \/ Exhausted
    \/ Drop

\* The `for` loop goes on calling next() and next() goes on with its loop
SpecRead ==
    /\ Init /\ [][NextRead]_vars
    /\ WF_vars(\E ord \in Orders : Pop(ord))
    /\ WF_vars(Exhausted)

---------------------------------------------------------------------------
\* Vocabulary of the properties.

\* find(w) is present
Present(t, w) == TrieFind(t, w).res # None

IsPrefix(p, w) == Len(p) <= Len(w) /\ SubSeq(w, 1, Len(p)) = p

StrictPrefix(p, w) == IsPrefix(p, w) /\ p # w

Prefixes(w) == {SubSeq(w, 1, n) : n \in 0..Len(w)}

Range(seq) == {seq[i] : i \in DOMAIN seq}

NoDuplicates(seq) == Cardinality(Range(seq)) = Len(seq)

\* The strings whose path is present
Paths(t) == {w \in Str : Present(t, w)}

\* What `for word in t.words()` yields when the children are visited in `ord`
WordsOf(t, ord) == Collect(TrieWords(t, ord), ord)

\* The entries of S that are not a strict prefix of another entry of S
Maximal(S) == {e \in S : ~\E f \in S : StrictPrefix(e, f)}

Returned(kind) == last.kind = kind /\ ~panicked

---------------------------------------------------------------------------
\* C1: after insert(E) has returned, find(F) is present for E and for every
\* prefix F of E, and every path that was present before the call is still
\* present (so a path, once inserted, stays present over any later inserts).
C1_InsertKeepsPaths ==
    Returned("insert") =>
        /\ \A F \in Prefixes(last.a) : Present(trie, F)
        /\ \A w \in Str : Present(prev, w) => Present(trie, w)

\* insert(E) of a two-char entry into a trie that holds a path off E's
C1_Witness ==
    /\ Returned("insert")
    /\ Len(last.a) = 2
    /\ \E w \in Paths(prev) : ~IsPrefix(w, last.a) /\ Present(trie, w)
    /\ ~Present(prev, last.a)
    /\ Present(trie, last.a)

\* C2: for stored entries E and E2 # E with a non-empty common prefix P,
\* delete(E) leaves find(P) present and words() still yields E2, also when E2
\* is a strict prefix of E.
C2_SharedPrefixSurvives ==
    (Returned("delete") /\ last.a \in prevEntries) =>
        \A E2 \in prevEntries \ {last.a} :
            \A P \in (Prefixes(last.a) \cap Prefixes(E2)) \ {<<>>} :
                /\ Present(trie, P)
                /\ \A ord \in Orders : E2 \in Range(WordsOf(trie, ord))

\* C3 as stated: when the path of P+S is present, delete_after_prefix(P, S)
\* leaves the same present paths and the same words() as delete(P+S).
C3_SameAsDelete ==
    (Returned("delete_after_prefix") /\ Present(prev, last.a \o last.b)) =>
        LET D == TrieDelete(prev, last.a \o last.b).trie
        IN  /\ Paths(trie) = Paths(D)
            /\ \A ord \in Orders : Range(WordsOf(trie, ord)) = Range(WordsOf(D, ord))

\* C3 amended: delete_after_prefix(P, S) leaves the present paths of
\* delete(P+S) together with P and the prefixes of P, and words() yields what
\* it yields after delete(P+S), and P itself when P is not empty and the node
\* at P is left without children.
C3_SameAsDeleteBelowPrefix ==
    (Returned("delete_after_prefix") /\ Present(prev, last.a \o last.b)) =>
        LET P == last.a
            D == TrieDelete(prev, P \o last.b).trie
            kept == IF P # <<>> /\ ChildrenLen(TrieFind(trie, P).res[1]) = 0
                    THEN {P} ELSE {}
        IN  /\ Paths(trie) = Paths(D) \cup Prefixes(P)
            /\ \A ord \in Orders :
                  Range(WordsOf(trie, ord)) = Range(WordsOf(D, ord)) \cup kept

\* delete_after_prefix(P, S), P and S not empty, that leaves the node at P
\* without children where delete(P+S) removes it
C3_Witness ==
    /\ Returned("delete_after_prefix")
    /\ last.a # <<>> /\ last.b # <<>>
    /\ Present(prev, last.a \o last.b)
    /\ ~Present(trie, last.a \o last.b)
    /\ Present(trie, last.a)
    /\ ~Present(TrieDelete(prev, last.a \o last.b).trie, last.a)

\* C4: when no path of the trie starts with the first char of E, insert(E)
\* followed by delete(E) gives back the trie of before the insert: E and its
\* non-empty prefixes are absent and words() yields what it yielded before.
C4_InsertDeleteRestores ==
    (Returned("delete") /\ prev2 # None /\ last.a # <<>>
        /\ ~Present(prev2[1], <<Head(last.a)>>)) =>
        /\ trie = prev2[1]
        /\ \A F \in Prefixes(last.a) \ {<<>>} : ~Present(trie, F)
        /\ \A ord \in Orders :
              /\ Range(WordsOf(trie, ord)) = Range(WordsOf(prev2[1], ord))
              /\ Len(WordsOf(trie, ord)) = Len(WordsOf(prev2[1], ord))

\* insert(E) then delete(E) of a two-char entry, next to another entry
C4_Witness ==
    /\ Returned("delete") /\ prev2 # None
    /\ Len(last.a) = 2
    /\ ~Present(prev2[1], <<Head(last.a)>>)
    /\ Present(prev, last.a)
    /\ Paths(prev2[1]) # {<<>>}
    /\ trie = prev2[1]

\* C5: after inserts only, words() yields, each once, the inserted entries
\* that are not a strict prefix of another inserted entry; an inserted entry
\* that is one is not yielded although its path is present.
C5_WordsYieldsMaximalEntries ==
    (Returned("words") /\ ~dirty) =>
        /\ Range(out) = Maximal(entries)
        /\ NoDuplicates(out)
        /\ \A F \in entries \ Maximal(entries) : Present(trie, F) /\ F \notin Range(out)

\* words() over three inserted entries, one a strict prefix of another
C5_Witness ==
    /\ Returned("words") /\ tracking /\ ~dirty
    /\ Cardinality(entries) = 3
    /\ Cardinality(Maximal(entries)) = 2
    /\ Len(out) = 2

\* C6: words_with_prefix(X) yields the entries that words() yields and that
\* start with X and are longer than X, each once, and nothing when find(X)
\* is absent.
C6_WordsWithPrefix ==
    Returned("words_with_prefix") =>
        /\ \A ord \in Orders :
              Range(out) = {w \in Range(WordsOf(trie, ord)) : StrictPrefix(last.a, w)}
        /\ NoDuplicates(out)
        /\ ~Present(trie, last.a) => out = <<>>

\* words_with_prefix(X), X not empty, that yields some of the words but not all
C6_Witness ==
    /\ Returned("words_with_prefix")
    /\ last.a # <<>>
    /\ out # <<>>
    /\ \E ord \in Orders : Range(out) # Range(WordsOf(trie, ord))

\* C7: insert(E) into a trie that holds the whole path of E leaves the trie
\* as it was; insert("") is the case of the empty path.
C7_InsertIdempotent ==
    (Returned("insert") /\ Present(prev, last.a)) => trie = prev

\* insert(E) of a two-char entry whose path was present
C7_Witness ==
    /\ Returned("insert")
    /\ Len(last.a) = 2
    /\ Present(prev, last.a)
    /\ trie = prev

\* C8: insert(entry) returns for every string, also one with a char longer
\* than one byte, and find(entry) is present afterwards.
C8_InsertNeverAborts ==
    last.kind = "insert" => (~panicked /\ Present(trie, last.a))

\* C9: delete(W) leaves the trie as it was when the node at W has a child.
C9_DeletePrefixNoOp ==
    (Returned("delete") /\ Present(prev, last.a)
        /\ ChildrenLen(TrieFind(prev, last.a).res[1]) >= 1) =>
        /\ trie = prev
        /\ Paths(trie) = Paths(prev)
        /\ \A ord \in Orders : WordsOf(trie, ord) = WordsOf(prev, ord)

\* delete(W) of a one-char W below which an entry is stored
C9_Witness ==
    /\ Returned("delete")
    /\ Len(last.a) = 1
    /\ Present(prev, last.a)
    /\ ChildrenLen(TrieFind(prev, last.a).res[1]) >= 1
    /\ Present(trie, last.a)

\* C10: delete_after_prefix(P, S) keeps find(P) present when it was, changes
\* the presence of no path that does not have P as a strict prefix, and leaves
\* the trie as it was when find(P) is absent.
C10_DeleteAfterPrefixFrame ==
    Returned("delete_after_prefix") =>
        /\ Present(prev, last.a) => Present(trie, last.a)
        /\ \A w \in Str : ~StrictPrefix(last.a, w) => (Present(trie, w) <=> Present(prev, w))
        /\ ~Present(prev, last.a) => trie = prev

\* delete_after_prefix(P, S) that removes a path below a non-empty P while
\* another path off P stays
C10_Witness ==
    /\ Returned("delete_after_prefix")
    /\ last.a # <<>>
    /\ trie # prev
    /\ \E w \in Paths(trie) : ~IsPrefix(w, last.a) /\ ~IsPrefix(last.a, w)

---------------------------------------------------------------------------
\* Properties of the edit loop.

\* str::trim of a line whose only whitespace char is the space
RECURSIVE TrimStart(_)
TrimStart(s) == IF s # <<>> /\ Head(s) = " " THEN TrimStart(Tail(s)) ELSE s

RECURSIVE TrimEnd(_)
TrimEnd(s) ==
    IF s # <<>> /\ s[Len(s)] = " " THEN TrimEnd(SubSeq(s, 1, Len(s) - 1)) ELSE s

Trim(s) == TrimEnd(TrimStart(s))

\* C11: on Tab with buffer B, every entry committed into the history earlier
\* that has B as a prefix is listed, B itself and strict prefixes of other
\* entries included.
C11_CompletionListsAll ==
    (event.kind = "Tab" /\ ~panicked) =>
        \A e \in entries : IsPrefix(line_buffer, e) => e \in Range(out)

\* C12: on a commit of a line that is no exit command, the text inserted into
\* the history is the line with the surrounding whitespace trimmed, and no
\* path of the history begins with a space.
C12_InsertsTrimmedLine ==
    (event.kind = "Enter" /\ returned # None /\ ~IsExitCommand(returned[1])) =>
        /\ last = Call("insert", Trim(returned[1]), <<>>)
        /\ panicked \/ Present(trie, Trim(returned[1]))
        /\ panicked \/ ~Present(trie, <<" ">>)

\* C13: a commit of a line whose lowercased form is q, quit or exit ends the
\* loop and leaves the history as it was; a commit of any other line inserts
\* it into the history and the loop goes on with an empty buffer.
C13_CommitExitsOrInserts ==
    (event.kind = "Enter" /\ returned # None) =>
        IF to_lowercase(returned[1]) \in
              {<<"q">>, <<"q", "u", "i", "t">>, <<"e", "x", "i", "t">>}
        THEN status = "returned" /\ trie = prev
        ELSE /\ ~panicked
             /\ last = Call("insert", returned[1], <<>>)
             /\ Present(trie, returned[1])
             /\ status = "editing"
             /\ line_buffer = <<>>

\* C14: Ctrl+Backspace on buffer B leaves the part of B before its last
\* space, or the empty buffer when B holds no space; the history is as it was.
C14_DeleteLastWord ==
    event.kind = "CtrlBackspace" =>
        LET B      == prevBuffer
            spaces == {i \in DOMAIN B : B[i] = " "}
            k      == CHOOSE i \in spaces : \A j \in spaces : j <= i
        IN  /\ line_buffer = IF spaces # {} THEN SubSeq(B, 1, k - 1) ELSE <<>>
            /\ trie = prev
            /\ entries = prevEntries
            /\ status = "editing"

\* Ctrl+Backspace on a buffer that ends in a space after a word, with a
\* history that holds a line
C14_Witness ==
    /\ event.kind = "CtrlBackspace"
    /\ Len(prevBuffer) = 2 /\ prevBuffer[2] = " "
    /\ line_buffer = <<prevBuffer[1]>>
    /\ entries # {}

\* C15: Tab changes neither the buffer nor the history, and the input cycle
\* goes on.
C15_TabChangesNothing ==
    event.kind = "Tab" =>
        /\ line_buffer = prevBuffer
        /\ trie = prev
        /\ entries = prevEntries
        /\ status = "editing" /\ returned = None /\ ~panicked

\* Tab on a non-empty buffer that lists a line of the history
C15_Witness ==
    /\ event.kind = "Tab"
    /\ line_buffer # <<>>
    /\ out # <<>>
    /\ trie = prev

C20_OnlyEnterReturns ==
    /\ returned # None => event.kind = "Enter"
    /\ event.kind \in {"Other", "NotKey"} =>
          /\ line_buffer = prevBuffer
          /\ status = "editing"
          /\ returned = None
          /\ trie = prev

---------------------------------------------------------------------------
\* C19: delete(W) of a string W whose full path is not present leaves the
\* trie as it was; a stored leaf L that is a strict prefix of W is still
\* present and still yielded by words().
C19_DeleteAbsentNoOp ==
    (Returned("delete") /\ ~Present(prev, last.a)) =>
        /\ trie = prev
        /\ \A L \in Prefixes(last.a) \ {<<>>, last.a} :
              (Present(prev, L) /\ ChildrenLen(TrieFind(prev, L).res[1]) = 0) =>
                  /\ Present(trie, L)
                  /\ \A ord \in Orders : L \in Range(WordsOf(trie, ord))

---------------------------------------------------------------------------
\* The nodes below a node
RECURSIVE Descendants(_)
Descendants(node) ==
    UNION {{node.children[c]} \cup Descendants(node.children[c]) : c \in DOMAIN node.children}

\* The values of the nodes below the root that have no children
LeafValues(t) == {n.value : n \in {d \in Descendants(t.root) : ChildrenLen(d) = 0}}

\* C16 as stated: in a trie reached from the empty trie by insert, delete and
\* delete_after_prefix calls, the value of every childless node below the
\* root is a word that was passed to insert before.
C16_LeavesWereInserted ==
    ~panicked => LeafValues(trie) \subseteq inserted

\* C16: in a trie reached from the empty trie by insert, delete and
\* delete_after_prefix calls, the value of every childless node below the
\* root is a word that was passed to insert before or the prefix that was
\* passed to a delete_after_prefix call before.
C16_LeavesWereInsertedOrCut ==
    ~panicked => LeafValues(trie) \subseteq (inserted \cup cut)

\* a trie with a leaf left by delete_after_prefix next to an inserted leaf
C16_Witness ==
    /\ ~panicked
    /\ \E v \in LeafValues(trie) : v \in cut /\ v \notin inserted
    /\ \E v \in LeafValues(trie) : v \in inserted /\ v \notin cut

---------------------------------------------------------------------------
\* The nodes below the node the iterator of the call `call` starts at
Below(t, call) ==
    LET f == TrieFind(t, call.a)
    IN  IF f.res = None THEN {} ELSE Descendants(f.res[1])

Childless(nodes) == {n \in nodes : ChildrenLen(n) = 0}

\* The iterator has popped no node twice and none that is not below its
\* start, has returned the values of the childless nodes popped, each once,
\* and every node below the start is popped, on the stack or below a node on
\* the stack; with the stack empty all are popped, and next() returns None
\* from then on.
IteratorVisitsOnce ==
    reading # "none" =>
        LET below == Below(trie, last)
        IN  /\ NoDuplicates(popped \o stack)
            /\ Range(popped) \subseteq below
            /\ below = Range(popped) \cup Range(stack)
                          \cup UNION {Descendants(stack[i]) : i \in DOMAIN stack}
            /\ NoDuplicates(yielded)
            /\ Range(yielded) = {n.value : n \in Childless(Range(popped))}
            /\ Len(yielded) = Cardinality(Childless(Range(popped)))
            /\ stack = <<>> =>
                  /\ Range(popped) = below
                  /\ Range(yielded) = {n.value : n \in Childless(below)}
            /\ reading = "finished" => stack = <<>> /\ out = None

\* C18: an iterator made by words() or words_with_prefix() pops every node
\* below its start once, returns the value of every childless node below its
\* start once, comes to an empty stack, and returns nothing from then on.
C18_IteratorTerminates ==
    /\ []IteratorVisitsOnce
    /\ (reading = "iterating") ~> (reading = "finished")

\* an iterator that is through with a tree of four nodes, two of them inner
C18_Witness ==
    /\ reading = "finished"
    /\ Len(popped) = 4
    /\ Len(yielded) = 2
    /\ Range(popped) = Descendants(trie.root)

---------------------------------------------------------------------------
\* What a line shows: its cells up to the last one that is not blank
Shown(line) == TrimEnd(line)

\* C21: while chars are typed and deleted in an input cycle, the current
\* line of the terminal shows the prompt "> " followed by the line_buffer,
\* and the cursor is right behind it; so Backspace on an empty line_buffer
\* leaves the prompt as it is.
C21_DisplayShowsBuffer ==
    status = "editing" =>
        /\ Shown(stdout.line) = Shown(<<">", " ">> \o line_buffer)
        /\ stdout.column = 2 + Len(line_buffer)

====
